---- MODULE Spec2Model ----
(***************************************************************************)
(* Model of src/app.py (Company-Feature Matcher).                          *)
(*                                                                         *)
(* The two uploaded files are byte streams with a read cursor.  A stream   *)
(* is a sequence of lines; the cursor counts the lines already consumed.   *)
(* The parsed content of a stream (the region table, the company table)    *)
(* is carried next to its lines.  Geometry is one-dimensional: a polygon   *)
(* is a closed interval of longitudes, a company point is a longitude      *)
(* (its latitude is the constant 0 and every polygon covers latitude 0).   *)
(***************************************************************************)
EXTENDS Integers, Sequences, FiniteSets, TLC

\* ------------------------------------------------------------------ bounds
MaxBlank == 1       \* leading blank / empty-field lines of a stream
MaxCompanies == 2   \* data rows of the company file
MaxCoord == 2       \* longitudes are 0..MaxCoord

\* ------------------------------------------------------------- value model
NULL == "<null>"                 \* a missing value (None / NaN)
EOF == ""                        \* what readline() returns at end of file
BlankLine == "\n"                \* a line of white space only
CommaLine == ",,\n"              \* a line whose comma-split fields are all empty
JsonLine == "{json}\n"           \* a line of GeoJSON text
HeaderLine == "header\n"         \* the header row of the company file
RowLine == "row\n"               \* a data row of the company file

\* str.strip() of a line, as far as the loops look at it: empty or not
StripIsEmpty(line) == line \in {EOF, BlankLine}

\* all(field.strip() == '' for field in line.split(','))
AllFieldsEmpty(line) == line \in {EOF, BlankLine, CommaLine}

\* readline(): the line at the cursor and the cursor after it; b'' at EOF
ReadLine(lines, pos) ==
    IF pos < Len(lines)
    THEN [line |-> lines[pos + 1], pos |-> pos + 1]
    ELSE [line |-> EOF, pos |-> pos]

\* seek(0)
SeekNoRewind(pos) == pos
Seek0(pos) == 0

\* sequence helpers
Range(s) == {s[i] : i \in 1..Len(s)}

\* Python's order on the strings that occur as region identifiers
SortedNames ==
    <<"0", "1", "10", "11", "12", "2", "20", "21", "22", "3", "A", "B", "H1", "H2">>
NameRank(n) == CHOOSE i \in 1..Len(SortedNames) : SortedNames[i] = n
StrLess(a, b) == NameRank(a) < NameRank(b)

\* ------------------------------------------------------------ region table
\* A region table as gpd.read_file yields it: a set of columns, the values of
\* the 'name' column, the 'hood' entry of each row's 'properties' value, and
\* the geometry column.  The other identifier columns hold numbers.
IdentifierColumns == {"OBJECTID", "id", "neighborhood", "area"}

ColumnValue(col, i) ==
    CASE col = "OBJECTID" -> i
      [] col = "id" -> 10 + i
      [] col = "neighborhood" -> 20 + i
      [] col = "area" -> 3

\* Series.astype(str) on a numeric column
AsTypeStr(v) == ToString(v)

\* lines 26-28: lift properties['hood'] into 'name' when there is no 'name' column
LiftHood(tbl) ==
    IF "name" \notin tbl.cols /\ "properties" \in tbl.cols
    THEN [tbl EXCEPT !.cols = tbl.cols \cup {"name"}, !.name = tbl.hood]
    ELSE tbl

\* line 31: 'name' in columns and neighborhoods['name'].notnull().any()
NameExists(tbl) ==
    /\ "name" \in tbl.cols
    /\ \E i \in 1..Len(tbl.name) : tbl.name[i] # NULL

\* line 34
possible_fallbacks_swapped == <<"id", "OBJECTID", "neighborhood", "area">>
possible_fallbacks == <<"OBJECTID", "id", "neighborhood", "area">>

\* line 35: next((col for col in possible_fallbacks if col in columns), None)
FallbackColumn(cols) ==
    LET hits == {k \in 1..Len(possible_fallbacks) : possible_fallbacks[k] \in cols}
    IN IF hits = {} THEN NULL
       ELSE possible_fallbacks[CHOOSE k \in hits : \A m \in hits : k <= m]

\* lines 25-44: the returned table, the flag and the message emitted
GetFeatures(raw) ==
    LET tbl == LiftHood(raw)
        exists == NameExists(tbl)
        fb == FallbackColumn(tbl.cols)
        n == Len(tbl.geometry)
        names == IF exists THEN tbl.name
                 ELSE IF fb # NULL
                      THEN [i \in 1..n |-> AsTypeStr(ColumnValue(fb, i))]
                      ELSE [i \in 1..n |-> AsTypeStr(i - 1)]
    IN [neighborhoods |-> [i \in 1..n |-> [name |-> names[i], geometry |-> tbl.geometry[i]]],
        name_exists |-> exists,
        message |-> IF exists THEN "none" ELSE IF fb # NULL THEN "warning" ELSE "info"]

\* ----------------------------------------------------------- company table
FundingColumn == "TOTAL FUNDING (EUR M)"

\* line 71: col.startswith('TOTAL FUNDING')
StartsWithTotalFunding(col) == col = FundingColumn

\* line 66, negated: both required columns are present
HasLatAndLonEither(columns) == "LATITUDE" \in columns \/ "LONGITUDE" \in columns
HasLatAndLon(columns) == "LATITUDE" \in columns /\ "LONGITUDE" \in columns

\* line 57: ';' in first_line.  Header and data rows hold the file's separator.
HasSemicolon(line, file) == line \in {HeaderLine, RowLine} /\ file.sep = ";"

\* pd.read_csv(..., skip_blank_lines=True) from the cursor: the first line that
\* is not blank is the header; later lines are rows, a line of empty fields
\* being a row of missing values.  A header that is not the file's header row,
\* or that is split at the wrong separator, yields none of the file's column
\* names.  kind is "empty" when nothing is left to parse.
FirstNonBlank(lines, pos) ==
    LET cand == {k \in (pos + 1)..Len(lines) : lines[k] # BlankLine}
    IN IF cand = {} THEN 0 ELSE CHOOSE k \in cand : \A m \in cand : k <= m

RECURSIVE ParseRows(_, _, _, _)
ParseRows(lines, k, rows, idx) ==
    IF k > Len(lines) THEN <<>>
    ELSE IF lines[k] = RowLine
         THEN <<[idx |-> idx, empty |-> FALSE,
                 LONGITUDE |-> rows[1].LONGITUDE, FUNDING |-> rows[1].FUNDING]>>
              \o ParseRows(lines, k + 1, Tail(rows), idx + 1)
         ELSE IF lines[k] = CommaLine
              THEN <<[idx |-> idx, empty |-> TRUE, LONGITUDE |-> 0, FUNDING |-> 0]>>
                   \o ParseRows(lines, k + 1, rows, idx + 1)
              ELSE ParseRows(lines, k + 1, rows, idx)

ReadCsv(file, pos, sep) ==
    LET h == FirstNonBlank(file.lines, pos)
    IN IF h = 0 THEN [kind |-> "empty", columns |-> {}, rows |-> <<>>]
       ELSE IF file.lines[h] = HeaderLine /\ sep = file.sep
            THEN [kind |-> "table", columns |-> file.table.columns,
                  rows |-> ParseRows(file.lines, h + 1, file.table.rows, 0)]
            ELSE [kind |-> "table", columns |-> {"Unnamed: 0", "Unnamed: 1"},
                  rows |-> <<>>]

\* line 63: dropna(how='all')
RECURSIVE DropNaAll(_)
DropNaAll(rows) ==
    IF rows = <<>> THEN <<>>
    ELSE (IF Head(rows).empty THEN <<>> ELSE <<Head(rows)>>) \o DropNaAll(Tail(rows))

\* line 71
FindFundingColumn(columns) ==
    IF \E c \in columns : StartsWithTotalFunding(c) THEN FundingColumn ELSE NULL

\* ----------------------------------------------------------- spatial join
\* predicate='intersects' of a point and a polygon: the boundary counts
Within(x, poly) == poly.lo < x /\ x < poly.hi
Intersects(x, poly) == poly.lo <= x /\ x <= poly.hi

\* line 78 and the drop of 'geometry' and 'index_right': one row per
\* (company, region) pair, by company and then by region
RECURSIVE JoinRegions(_, _, _)
JoinRegions(c, nb, j) ==
    IF j > Len(nb) THEN <<>>
    ELSE (IF Intersects(c.LONGITUDE, nb[j].geometry)
          THEN <<[idx |-> c.idx, LONGITUDE |-> c.LONGITUDE, FUNDING |-> c.FUNDING,
                  name |-> nb[j].name]>>
          ELSE <<>>) \o JoinRegions(c, nb, j + 1)

RECURSIVE SJoin(_, _)
SJoin(companies, nb) ==
    IF companies = <<>> THEN <<>>
    ELSE JoinRegions(Head(companies), nb, 1) \o SJoin(Tail(companies), nb)

\* line 85: drop_duplicates() compares the columns, not the index, keeps the first
SameColumns(a, b) ==
    a.LONGITUDE = b.LONGITUDE /\ a.FUNDING = b.FUNDING /\ a.name = b.name

RECURSIVE DropDuplicatesFrom(_, _)
DropDuplicatesFrom(rows, kept) ==
    IF rows = <<>> THEN kept
    ELSE IF \E k \in 1..Len(kept) : SameColumns(kept[k], Head(rows))
         THEN DropDuplicatesFrom(Tail(rows), kept)
         ELSE DropDuplicatesFrom(Tail(rows), Append(kept, Head(rows)))
DropDuplicates(rows) == DropDuplicatesFrom(rows, <<>>)

\* what filter_companies_in_features returns
NotRun == [status |-> "not_run", table |-> <<>>, input_count |-> 0,
           output_count |-> 0, funding_column |-> NULL]
NoneResult == [status |-> "none", table |-> <<>>, input_count |-> 0,
               output_count |-> 0, funding_column |-> NULL]

\* lines 73-86
FilterResult(companies_df, fcol, nb, exists) ==
    LET joined == SJoin(companies_df, nb)
        out == IF exists THEN joined ELSE DropDuplicates(joined)
    IN [status |-> "table", table |-> out, input_count |-> Len(companies_df),
        output_count |-> Len(out), funding_column |-> fcol]

\* -------------------------------------------------------------- aggregator
\* groupby / value_counts leave out the rows whose key is missing
GroupKeys(table) == {table[k].name : k \in 1..Len(table)} \ {NULL}

GroupSize(table, key) == Cardinality({k \in 1..Len(table) : table[k].name = key})

RECURSIVE SumFunding(_)
SumFunding(table) ==
    IF table = <<>> THEN 0 ELSE Head(table).FUNDING + SumFunding(Tail(table))

RECURSIVE GroupRows(_, _)
GroupRows(table, key) ==
    IF table = <<>> THEN <<>>
    ELSE (IF Head(table).name = key THEN <<Head(table)>> ELSE <<>>)
         \o GroupRows(Tail(table), key)

GroupSum(table, key) == SumFunding(GroupRows(table, key))

\* the keys in the order of their first row
RECURSIVE FirstSeenFrom(_, _)
FirstSeenFrom(table, seen) ==
    IF table = <<>> THEN seen
    ELSE IF Head(table).name = NULL \/ Head(table).name \in Range(seen)
         THEN FirstSeenFrom(Tail(table), seen)
         ELSE FirstSeenFrom(Tail(table), Append(seen, Head(table).name))
GroupOrderFirstSeen(table) == FirstSeenFrom(table, <<>>)

\* the keys in ascending order
RECURSIVE SortKeys(_)
SortKeys(keys) ==
    IF keys = {} THEN <<>>
    ELSE LET m == CHOOSE x \in keys : \A y \in keys : x = y \/ StrLess(x, y)
         IN <<m>> \o SortKeys(keys \ {m})

\* line 96: groupby('name') sorts the group keys (sort=True is the default)
GroupOrder(table) == SortKeys(GroupKeys(table))

\* line 107: value_counts() sorts by count, largest first; the order of equal
\* counts is left to the library
ValueCountsOrders(table) ==
    LET keys == GroupKeys(table)
        n == Cardinality(keys)
    IN {s \in [1..n -> keys] :
          /\ \A i, j \in 1..n : i # j => s[i] # s[j]
          /\ \A i \in 1..n : \A j \in 1..n :
               i < j => GroupSize(table, s[i]) >= GroupSize(table, s[j])}

\* line 103 / line 111: the count of the first row
EntireAreaCountGroups(f) ==
    LET keys == GroupKeys(f.table)
    IN Cardinality({k \in 1..Len(f.table) : f.table[k].name \in keys})
EntireAreaCount(f) == f.output_count

\* lines 94-104
FundingTable(f) ==
    LET order == GroupOrder(f.table)
    IN <<[Feature |-> "Entire Area", Count |-> EntireAreaCount(f),
          Funding |-> SumFunding(f.table)]>>
       \o [k \in 1..Len(order) |->
             [Feature |-> order[k], Count |-> GroupSize(f.table, order[k]),
              Funding |-> GroupSum(f.table, order[k])]]

\* lines 105-112, for one order of the counted keys
CountTable(f, order) ==
    <<[Feature |-> "Entire Area", Count |-> EntireAreaCount(f)]>>
    \o [k \in 1..Len(order) |->
          [Feature |-> order[k], Count |-> GroupSize(f.table, order[k])]]

\* what calculate_funding returns
AggNotRun == [status |-> "not_run", branch |-> "none", table |-> <<>>]
AggNone == [status |-> "none", branch |-> "none", table |-> <<>>]

\* ------------------------------------------------------------------- state
VARIABLES
    geojson_file,   \* the uploaded region file: its lines and its parsed content
    csv_file,       \* the uploaded company file: its lines and its parsed content
    build,          \* what the libraries of the installation do with a cursor
    geoPos,         \* read cursor of geojson_file, in lines
    csvPos,         \* read cursor of csv_file, in lines
    consumed,       \* which of the two current stream objects were parsed before
    pc,             \* position of the script
    caller,         \* who called get_features: "main" (line 117) or "filter" (line 47)
    button,         \* the button that is pressed in this script run
    first_line,     \* local of the inspection loops
    raw,            \* what gpd.read_file returned
    neighborhoods,  \* returned by get_features
    name_exists,    \* returned by get_features
    delimiter,      \* line 57
    messages,       \* st.warning / st.info / st.error of this script run
    filtered,       \* returned by filter_companies_in_features in this run
    funding_result, \* returned by calculate_funding in this run
    earlier         \* the outputs of earlier runs on the same stream objects

vars == <<geojson_file, csv_file, build, geoPos, csvPos, consumed, pc, caller, button,
          first_line, raw, neighborhoods, name_exists, delimiter, messages, filtered,
          funding_result, earlier>>

inputs == <<geojson_file, csv_file, build>>

\* ------------------------------------------------------------------ inputs
SeqsUpTo(S, n) == UNION {[1..k -> S] : k \in 0..n}

Intervals == {iv \in [lo : 0..MaxCoord, hi : 0..MaxCoord] : iv.lo < iv.hi}

NoColumn == <<NULL, NULL>>
AdjacentRegions == <<[lo |-> 0, hi |-> 1], [lo |-> 1, hi |-> 2]>>

NameOptions ==
    {[cols |-> {}, values |-> NoColumn]}
    \cup {[cols |-> {"name"}, values |-> n] : n \in [1..2 -> {NULL, "A", "B"}]}

HoodOptions ==
    {[cols |-> {}, values |-> NoColumn]}
    \cup {[cols |-> {"properties"}, values |-> h] :
             h \in {NoColumn, <<"H1", "H2">>, <<"H1", NULL>>}}

\* region tables that differ in their identifier columns
IdentTables ==
    {[cols |-> n.cols \cup h.cols \cup f, name |-> n.values, hood |-> h.values,
      geometry |-> AdjacentRegions] :
        n \in NameOptions, h \in HoodOptions, f \in SUBSET IdentifierColumns}

\* region tables that differ in their polygons and names
MatchTables ==
    {[cols |-> c \cup f, name |-> n, hood |-> NoColumn,
      geometry |-> <<[lo |-> 0, hi |-> 1], g>>] :
        c \in {{"name"}}, f \in {{}, {"OBJECTID"}},
        n \in {<<"A", "B">>, <<"B", "A">>, <<"A", "A">>, <<"A", NULL>>},
        g \in Intervals}
    \cup
    {[cols |-> f, name |-> NoColumn, hood |-> NoColumn,
      geometry |-> <<[lo |-> 0, hi |-> 1], g>>] :
        f \in {{}, {"OBJECTID"}}, g \in Intervals}

NamedTable ==
    [cols |-> {"name"}, name |-> <<"A", "B">>, hood |-> NoColumn,
     geometry |-> AdjacentRegions]

CompanyRows(funding) ==
    [LONGITUDE : 0..MaxCoord, FUNDING : IF funding THEN {1, 2} ELSE {0}]

FullColumns(funding) ==
    {"NAME", "LATITUDE", "LONGITUDE"} \cup (IF funding THEN {FundingColumn} ELSE {})

ColumnSets ==
    {{"NAME"} \cup a \cup b \cup f :
        a \in {{"LATITUDE"}, {"latitude"}}, b \in {{"LONGITUDE"}, {}},
        f \in {{FundingColumn}, {}}}

TwoCompanies == <<[LONGITUDE |-> 0, FUNDING |-> 1], [LONGITUDE |-> 1, FUNDING |-> 2]>>

\* the lines of a company file: leading lines, the header, one line per row,
\* trailing lines
CsvLines(prefix, rows, trailing) ==
    prefix \o <<HeaderLine>> \o [k \in 1..Len(rows) |-> RowLine] \o trailing

PlainGeoFile(table) == [lines |-> <<JsonLine>>, table |-> table]
PlainCsvFile(columns, rows, trailing) ==
    [lines |-> CsvLines(<<>>, rows, trailing), sep |-> ",",
     table |-> [columns |-> columns, rows |-> rows]]

WorkingBuild == [geoRewinds |-> TRUE, sameHandles |-> FALSE]

InitIdent ==
    /\ geojson_file \in {PlainGeoFile(t) : t \in IdentTables}
    /\ csv_file = PlainCsvFile(FullColumns(TRUE), TwoCompanies, <<>>)
    /\ build = WorkingBuild

InitMatch ==
    /\ geojson_file \in {PlainGeoFile(t) : t \in MatchTables}
    /\ \E funding \in BOOLEAN :
         csv_file \in {PlainCsvFile(FullColumns(funding), rows, trailing) :
                          rows \in SeqsUpTo(CompanyRows(funding), MaxCompanies),
                          trailing \in {<<>>, <<CommaLine>>}}
    /\ build = WorkingBuild

InitStream ==
    /\ geojson_file \in
         {[lines |-> prefix \o content, table |-> NamedTable] :
             prefix \in SeqsUpTo({BlankLine}, MaxBlank),
             content \in {<<>>, <<JsonLine>>, <<JsonLine, BlankLine>>}}
    /\ csv_file \in
         {[lines |-> lines, sep |-> sep,
           table |-> [columns |-> columns, rows |-> TwoCompanies]] :
             lines \in {prefix \o <<HeaderLine, RowLine, RowLine>> :
                           prefix \in SeqsUpTo({BlankLine, CommaLine}, MaxBlank)}
                       \cup SeqsUpTo({BlankLine, CommaLine}, MaxBlank),
             sep \in {",", ";"},
             columns \in ColumnSets}
    /\ build \in [geoRewinds : BOOLEAN, sameHandles : BOOLEAN]

NoTable == [cols |-> {}, name |-> <<>>, hood |-> <<>>, geometry |-> <<>>]
EarlierNone == [filter |-> NotRun, funding |-> AggNotRun]

Init ==
    /\ InitIdent \/ InitMatch \/ InitStream
    /\ geoPos = 0
    /\ csvPos = 0
    /\ consumed = [geo |-> FALSE, csv |-> FALSE]
    /\ pc = "idle"
    /\ caller = "main"
    /\ button = "none"
    /\ first_line = EOF
    /\ raw = NoTable
    /\ neighborhoods = <<>>
    /\ name_exists = FALSE
    /\ delimiter = ","
    /\ messages = {}
    /\ filtered = NotRun
    /\ funding_result = AggNotRun
    /\ earlier = EarlierNone

\* ----------------------------------------------------------------- actions
\* lines 9-12 and 116-117: a script run starts and calls get_features.  The
\* uploader hands out the same two stream objects, cursors as they were left,
\* or fresh ones, as the installation does.
ScriptRun ==
    /\ pc = "idle"
    /\ pc' = "gf_loop"
    /\ caller' = "main"
    /\ button' = "none"
    /\ first_line' = EOF
    /\ raw' = NoTable
    /\ neighborhoods' = <<>>
    /\ name_exists' = FALSE
    /\ delimiter' = ","
    /\ messages' = {}
    /\ filtered' = NotRun
    /\ funding_result' = AggNotRun
    /\ IF build.sameHandles
       THEN /\ UNCHANGED <<geoPos, csvPos, consumed>>
            /\ earlier' =
                 [filter |-> IF filtered.status # "not_run" THEN filtered
                             ELSE earlier.filter,
                  funding |-> IF funding_result.status # "not_run" THEN funding_result
                              ELSE earlier.funding]
       ELSE /\ geoPos' = 0
            /\ csvPos' = 0
            /\ consumed' = [geo |-> FALSE, csv |-> FALSE]
            /\ earlier' = EarlierNone
    /\ UNCHANGED inputs

\* lines 17-18: one iteration of the loop of get_features
GfReadline ==
    /\ pc = "gf_loop"
    /\ StripIsEmpty(first_line)
    /\ LET r == ReadLine(geojson_file.lines, geoPos)
       IN /\ first_line' = r.line
          /\ geoPos' = r.pos
    /\ UNCHANGED <<inputs, csvPos, consumed, pc, caller, button, raw, neighborhoods,
                   name_exists, delimiter, messages, filtered, funding_result, earlier>>

\* line 17 (loop exit) and line 20
GfSeek ==
    /\ pc = "gf_loop"
    /\ ~StripIsEmpty(first_line)
    /\ geoPos' = Seek0(geoPos)
    /\ pc' = "gf_read"
    /\ UNCHANGED <<inputs, csvPos, consumed, caller, button, first_line, raw,
                   neighborhoods, name_exists, delimiter, messages, filtered,
                   funding_result, earlier>>

\* line 23: gpd.read_file reads from the cursor to the end; text that does not
\* start at the start of the file is no GeoJSON and raises, which ends the run.
\* The library leaves the cursor at the end or rewinds it.
GfReadFile ==
    /\ pc = "gf_read"
    /\ geoPos' = IF build.geoRewinds THEN 0 ELSE Len(geojson_file.lines)
    /\ consumed' = [consumed EXCEPT !.geo = TRUE]
    /\ IF geoPos = 0 /\ JsonLine \in Range(geojson_file.lines)
       THEN /\ raw' = geojson_file.table
            /\ pc' = "gf_resolve"
            /\ UNCHANGED messages
       ELSE /\ raw' = NoTable
            /\ pc' = "idle"
            /\ messages' = messages \cup {"exception"}
    /\ UNCHANGED <<inputs, csvPos, caller, button, first_line, neighborhoods,
                   name_exists, delimiter, filtered, funding_result, earlier>>

\* lines 25-44, and the return to line 117 or to line 47 (then line 52)
GfResolve ==
    /\ pc = "gf_resolve"
    /\ LET r == GetFeatures(raw)
       IN /\ neighborhoods' = r.neighborhoods
          /\ name_exists' = r.name_exists
          /\ messages' = IF r.message = "none" THEN messages
                         ELSE messages \cup {r.message}
    /\ IF caller = "main"
       THEN pc' = "buttons" /\ UNCHANGED first_line
       ELSE pc' = "csv_loop" /\ first_line' = EOF
    /\ UNCHANGED <<inputs, geoPos, csvPos, consumed, caller, button, raw, delimiter,
                   filtered, funding_result, earlier>>

\* lines 120 and 131-138: no button is pressed in this run
PressNothing ==
    /\ pc = "buttons"
    /\ pc' = "idle"
    /\ UNCHANGED <<inputs, geoPos, csvPos, consumed, caller, button, first_line, raw,
                   neighborhoods, name_exists, delimiter, messages, filtered,
                   funding_result, earlier>>

\* lines 120-121: the filter button; line 47 calls get_features again
PressFilter ==
    /\ pc = "buttons"
    /\ button' = "filter"
    /\ caller' = "filter"
    /\ first_line' = EOF
    /\ pc' = "gf_loop"
    /\ UNCHANGED <<inputs, geoPos, csvPos, consumed, raw, neighborhoods, name_exists,
                   delimiter, messages, filtered, funding_result, earlier>>

\* lines 131-133: the funding button, offered when name_exists; lines 89 and 47
PressFunding ==
    /\ pc = "buttons"
    /\ name_exists
    /\ button' = "funding"
    /\ caller' = "filter"
    /\ first_line' = EOF
    /\ pc' = "gf_loop"
    /\ UNCHANGED <<inputs, geoPos, csvPos, consumed, raw, neighborhoods, name_exists,
                   delimiter, messages, filtered, funding_result, earlier>>

\* lines 53-54: one iteration of the loop of filter_companies_in_features
CsvReadline ==
    /\ pc = "csv_loop"
    /\ StripIsEmpty(first_line) \/ AllFieldsEmpty(first_line)
    /\ LET r == ReadLine(csv_file.lines, csvPos)
       IN /\ first_line' = r.line
          /\ csvPos' = r.pos
    /\ UNCHANGED <<inputs, geoPos, consumed, pc, caller, button, raw, neighborhoods,
                   name_exists, delimiter, messages, filtered, funding_result, earlier>>

\* line 53 (loop exit) and lines 56-57
CsvSeek ==
    /\ pc = "csv_loop"
    /\ ~(StripIsEmpty(first_line) \/ AllFieldsEmpty(first_line))
    /\ csvPos' = Seek0(csvPos)
    /\ delimiter' = IF HasSemicolon(first_line, csv_file) THEN ";" ELSE ","
    /\ pc' = "csv_read"
    /\ UNCHANGED <<inputs, geoPos, consumed, caller, button, first_line, raw,
                   neighborhoods, name_exists, messages, filtered, funding_result,
                   earlier>>

\* where the script goes when filter_companies_in_features returns:
\* line 90 under the funding button, the end of the run under the filter button
AfterFilter == IF button = "funding" THEN "calc" ELSE "idle"

\* lines 60-86: read_csv (which leaves the cursor at the end; an empty rest
\* raises and ends the run), dropna, the column check, the funding column,
\* the spatial join and the return
CsvRead ==
    /\ pc = "csv_read"
    /\ csvPos' = Len(csv_file.lines)
    /\ consumed' = [consumed EXCEPT !.csv = TRUE]
    /\ LET df == ReadCsv(csv_file, csvPos, delimiter)
           companies_df == DropNaAll(df.rows)
       IN IF df.kind = "empty"
          THEN /\ messages' = messages \cup {"exception"}
               /\ pc' = "idle"
               /\ UNCHANGED filtered
          ELSE IF ~HasLatAndLon(df.columns)
               THEN /\ messages' = messages \cup {"error"}
                    /\ filtered' = NoneResult
                    /\ pc' = AfterFilter
               ELSE /\ filtered' = FilterResult(companies_df,
                                                FindFundingColumn(df.columns),
                                                neighborhoods, name_exists)
                    /\ pc' = AfterFilter
                    /\ UNCHANGED messages
    /\ UNCHANGED <<inputs, geoPos, caller, button, first_line, raw, neighborhoods,
                   name_exists, delimiter, funding_result, earlier>>

\* lines 90-114 and 134-136
CalculateFunding ==
    /\ pc = "calc"
    /\ pc' = "idle"
    /\ IF filtered.status = "none"
       THEN funding_result' = AggNone
       ELSE IF filtered.funding_column # NULL
            THEN funding_result' =
                   [status |-> "table", branch |-> "funding",
                    table |-> FundingTable(filtered)]
            ELSE \E order \in ValueCountsOrders(filtered.table) :
                   funding_result' =
                     [status |-> "table", branch |-> "count",
                      table |-> CountTable(filtered, order)]
    /\ UNCHANGED <<inputs, geoPos, csvPos, consumed, caller, button, first_line, raw,
                   neighborhoods, name_exists, delimiter, messages, filtered, earlier>>

Next ==
    \/ ScriptRun
    \/ GfReadline
    \/ GfSeek
    \/ GfReadFile
    \/ GfResolve
    \/ PressNothing
    \/ PressFilter
    \/ PressFunding
    \/ CsvReadline
    \/ CsvSeek
    \/ CsvRead
    \/ CalculateFunding

Spec == Init /\ [][Next]_vars

\* ------------------------------------------------------------------ claims
\* get_features has returned in this script run
Resolved == neighborhoods # <<>>

ReturnedNames == [i \in 1..Len(neighborhoods) |-> neighborhoods[i].name]

SomeNotNull(column) == \E i \in 1..Len(column) : column[i] # NULL

\* the identifiers a source yields for the region table t
SourceNames(t, src) ==
    CASE src = "name" -> t.name
      [] src = "hood" -> t.hood
      [] src = "index" -> [i \in 1..Len(t.geometry) |-> ToString(i - 1)]
      [] OTHER -> [i \in 1..Len(t.geometry) |-> ToString(ColumnValue(src, i))]

FirstFallback(t) ==
    IF "OBJECTID" \in t.cols THEN "OBJECTID"
    ELSE IF "id" \in t.cols THEN "id"
    ELSE IF "neighborhood" \in t.cols THEN "neighborhood"
    ELSE IF "area" \in t.cols THEN "area"
    ELSE "index"

\* the source C1 names: 'name' if present and not all null, else 'hood' of
\* 'properties', else the first fallback column, else the index
ClaimedSource(t) ==
    IF "name" \in t.cols /\ SomeNotNull(t.name) THEN "name"
    ELSE IF "properties" \in t.cols /\ SomeNotNull(t.hood) THEN "hood"
    ELSE FirstFallback(t)

\* the same order, with 'hood' a source only when the table has no 'name' column
AmendedSource(t) ==
    IF "name" \in t.cols /\ SomeNotNull(t.name) THEN "name"
    ELSE IF "name" \notin t.cols /\ "properties" \in t.cols /\ SomeNotNull(t.hood)
         THEN "hood"
    ELSE FirstFallback(t)

SourceUsed(src) ==
    /\ ReturnedNames = SourceNames(raw, src)
    /\ ("warning" \in messages) = (src \in IdentifierColumns)
    /\ ("info" \in messages) = (src = "index")

\* C1 as stated: the identifier of every region table comes from the first
\* applicable source in the order name, hood, OBJECTID, id, neighborhood, area,
\* index, with a warning for a fallback column and an info message for the index.
C1_OrderAsClaimed == Resolved => SourceUsed(ClaimedSource(raw))

\* C1 amended: the same order, where 'hood' is lifted only when the table has no
\* 'name' column at all (an all-null 'name' column goes on to the fallback columns).
C1_ResolutionOrder == Resolved => SourceUsed(AmendedSource(raw))

\* a table with an all-null 'name' column, a usable 'hood' and two fallback
\* columns has been resolved
C1_Witness ==
    /\ Resolved
    /\ "name" \in raw.cols /\ ~SomeNotNull(raw.name)
    /\ "properties" \in raw.cols /\ SomeNotNull(raw.hood)
    /\ {"OBJECTID", "id"} \subseteq raw.cols
    /\ ReturnedNames = <<"1", "2">>

IndexUsed == \A i \in 1..Len(neighborhoods) : neighborhoods[i].name = ToString(i - 1)

\* C2: the flag returned by get_features is false exactly when the positional
\* index is the identifier, and true for every other source.
C2_FlagIffSemantic == Resolved => (name_exists = ~IndexUsed)

\* ---- the matched table, from the two input tables
Companies == csv_file.table.rows
Polygons == geojson_file.table.geometry

Touches(k, j) ==
    Polygons[j].lo <= Companies[k].LONGITUDE /\ Companies[k].LONGITUDE <= Polygons[j].hi

RowsOf(table, k) == {r \in 1..Len(table) : table[r].idx = k - 1}

\* C3: with has_semantic_identifier true, the returned table holds one row per
\* (company, region) pair whose point intersects the polygon, boundary included;
\* output_count is its length and input_count the number of non-empty rows loaded.
C3_OneRowPerPair ==
    (name_exists /\ filtered.status = "table") =>
        /\ \A k \in 1..Len(Companies) :
             /\ Cardinality(RowsOf(filtered.table, k))
                  = Cardinality({j \in 1..Len(Polygons) : Touches(k, j)})
             /\ \A n \in Range(ReturnedNames) :
                  Cardinality({r \in RowsOf(filtered.table, k) : filtered.table[r].name = n})
                    = Cardinality({j \in 1..Len(Polygons) :
                                     Touches(k, j) /\ neighborhoods[j].name = n})
        /\ \A r \in 1..Len(filtered.table) : filtered.table[r].idx < Len(Companies)
        /\ filtered.output_count = Len(filtered.table)
        /\ filtered.input_count = Len(Companies)

\* a company on the boundary of two regions is returned twice, another company
\* not at all, and the file ends with a row of empty fields
C3_Witness ==
    /\ name_exists /\ filtered.status = "table"
    /\ Len(Companies) = 2
    /\ \E k \in 1..2 :
         /\ Cardinality(RowsOf(filtered.table, k)) = 2
         /\ Companies[k].LONGITUDE = Polygons[1].hi
         /\ Companies[k].LONGITUDE \in {Polygons[2].lo, Polygons[2].hi}
    /\ \E k \in 1..2 : RowsOf(filtered.table, k) = {}
    /\ CommaLine \in Range(csv_file.lines)

\* ---- the aggregate table
Agg == funding_result.table
Matched == filtered.table

RECURSIVE FundingOver(_, _)
FundingOver(table, rows) ==
    IF rows = {} THEN 0
    ELSE LET r == CHOOSE x \in rows : TRUE
         IN table[r].FUNDING + FundingOver(table, rows \ {r})

FundingBranch == funding_result.status = "table" /\ funding_result.branch = "funding"
CountBranch == funding_result.status = "table" /\ funding_result.branch = "count"

EntireAreaFirst ==
    /\ Len(Agg) >= 1
    /\ Agg[1].Feature = "Entire Area"
    /\ Agg[1].Count = Len(Matched)

RegionMatched(j) == \E k \in 1..Len(Companies) : Touches(k, j)

\* C4 as stated: 'Entire Area' with the total count and funding first, then
\* exactly one row per region that has a matched row, with that region's count
\* of matched rows and their funding sum.
C4_RowPerRegion ==
    FundingBranch =>
        /\ EntireAreaFirst
        /\ Agg[1].Funding = FundingOver(Matched, 1..Len(Matched))
        /\ Len(Agg) - 1 = Cardinality({j \in 1..Len(Polygons) : RegionMatched(j)})
        /\ \A j \in 1..Len(Polygons) :
             RegionMatched(j) =>
               \E a \in 2..Len(Agg) :
                 /\ Agg[a].Feature = neighborhoods[j].name
                 /\ Agg[a].Count
                      = Cardinality({k \in 1..Len(Companies) : Touches(k, j)})

KeyRows(n) == {r \in 1..Len(Matched) : Matched[r].name = n}

\* C4 amended: 'Entire Area' with the total count and funding first, then exactly
\* one row per distinct non-null region identifier that occurs in the matched
\* table, with the count and funding sum of the matched rows bearing it.
C4_RowPerIdentifier ==
    FundingBranch =>
        /\ EntireAreaFirst
        /\ Agg[1].Funding = FundingOver(Matched, 1..Len(Matched))
        /\ \A a, b \in 2..Len(Agg) : a # b => Agg[a].Feature # Agg[b].Feature
        /\ {Agg[a].Feature : a \in 2..Len(Agg)}
             = {Matched[r].name : r \in 1..Len(Matched)} \ {NULL}
        /\ \A a \in 2..Len(Agg) :
             /\ Agg[a].Count = Cardinality(KeyRows(Agg[a].Feature))
             /\ Agg[a].Funding = FundingOver(Matched, KeyRows(Agg[a].Feature))

\* the aggregate of the shape of the spec's example: A with two rows, B with one
C4_Witness ==
    /\ FundingBranch
    /\ Len(Agg) = 3
    /\ Agg[1].Count = 3 /\ Agg[1].Funding = Agg[2].Funding + Agg[3].Funding
    /\ Agg[2].Feature = "A" /\ Agg[2].Count = 2
    /\ Agg[3].Feature = "B" /\ Agg[3].Count = 1

\* a matched row of a region without a name is counted in 'Entire Area' only
C4_NullWitness ==
    /\ FundingBranch
    /\ \E r \in 1..Len(Matched) : Matched[r].name = NULL
    /\ Len(Agg) = 2 /\ Agg[1].Count > Agg[2].Count

\* C5: a company file without a LATITUDE or a LONGITUDE column yields the error
\* message, (None, 0, 0, None) from the filter and nothing from calculate_funding.
C5_MissingColumnsFatal ==
    (filtered.status # "not_run" /\ ~({"LATITUDE", "LONGITUDE"} \subseteq csv_file.table.columns))
        => /\ filtered = NoneResult
           /\ "error" \in messages
           /\ funding_result.status # "table"
           /\ (pc = "idle" /\ button = "funding") => funding_result = AggNone

\* calculate_funding has returned nothing for a file with 'latitude' in lower case
C5_Witness ==
    /\ "latitude" \in csv_file.table.columns
    /\ "LONGITUDE" \in csv_file.table.columns
    /\ button = "funding" /\ pc = "idle"
    /\ filtered = NoneResult /\ funding_result = AggNone /\ "error" \in messages

\* C6: each full parse starts with the read cursor of its stream at position 0.
C6_ParseFromStart ==
    /\ pc = "gf_read" => geoPos = 0
    /\ pc = "csv_read" => csvPos = 0

\* both inspection loops have consumed a blank line and the header, and the
\* company file is about to be parsed
C6_Witness ==
    /\ pc = "csv_read"
    /\ geojson_file.lines[1] = BlankLine
    /\ csv_file.lines[1] = BlankLine
    /\ first_line = HeaderLine

\* A loop that can no longer end: every line it can still read is one it skips.
\* The loops are deterministic, so a loop ends exactly when it never gets into
\* such a state; once in it, GfReadline / CsvReadline only repeat it.
GeoStuck ==
    /\ pc = "gf_loop"
    /\ StripIsEmpty(first_line)
    /\ \A k \in (geoPos + 1)..Len(geojson_file.lines) : StripIsEmpty(geojson_file.lines[k])

CsvStuck ==
    /\ pc = "csv_loop"
    /\ AllFieldsEmpty(first_line)
    /\ \A k \in (csvPos + 1)..Len(csv_file.lines) : AllFieldsEmpty(csv_file.lines[k])

\* C7: a run on stream objects that an earlier run has read, from the cursor
\* that run left, completes and returns the tables the earlier run returned.
C7_RerunIdempotent ==
    /\ consumed.geo => ~GeoStuck
    /\ consumed.csv => ~CsvStuck
    /\ (filtered.status # "not_run" /\ earlier.filter.status # "not_run")
          => filtered = earlier.filter
    /\ (funding_result.status # "not_run" /\ earlier.funding.status # "not_run")
          => funding_result = earlier.funding

\* the identifiers of the matched table in the order of their first row
RECURSIVE FirstSeen(_, _)
FirstSeen(table, seen) ==
    IF table = <<>> THEN seen
    ELSE FirstSeen(Tail(table),
                   IF Head(table).name = NULL \/ \E k \in 1..Len(seen) : seen[k] = Head(table).name
                   THEN seen ELSE Append(seen, Head(table).name))

AggFeatures == [a \in 1..(Len(Agg) - 1) |-> Agg[a + 1].Feature]

\* C8 as stated: in both branches 'Entire Area' is first and the region rows
\* follow in the order in which the identifiers first appear in the matched table.
C8_FirstSeenOrder ==
    funding_result.status = "table" =>
        /\ Agg[1].Feature = "Entire Area"
        /\ AggFeatures = FirstSeen(Matched, <<>>)

\* C8 amended: 'Entire Area' is first; in the funding branch the region rows
\* follow in ascending order of the identifier, in the count-only branch in
\* descending order of the count.
C8_SortedOrder ==
    funding_result.status = "table" =>
        /\ Agg[1].Feature = "Entire Area"
        /\ FundingBranch =>
             \A a \in 2..(Len(Agg) - 1) : StrLess(Agg[a].Feature, Agg[a + 1].Feature)
        /\ CountBranch =>
             \A a \in 2..(Len(Agg) - 1) : Agg[a].Count >= Agg[a + 1].Count

\* a funding aggregate whose identifiers first appear in the order B, A
C8_Witness ==
    /\ FundingBranch
    /\ Len(Agg) = 3
    /\ FirstSeen(Matched, <<>>) = <<"B", "A">>

\* a count-only aggregate whose larger group appears second in the matched table
C8_CountWitness ==
    /\ CountBranch
    /\ Len(Agg) = 3
    /\ Agg[2].Count > Agg[3].Count
    /\ Agg[2].Feature # Matched[1].name

\* C9: with has_semantic_identifier false, every company that matched a region
\* is returned once, however many regions it intersects.
C9_OneRowPerCompany ==
    (~name_exists /\ filtered.status = "table") =>
        /\ \A k \in 1..Len(Companies) :
             Cardinality(RowsOf(filtered.table, k)) <= 1
        /\ filtered.output_count
             <= Cardinality({k \in 1..Len(Companies) : \E j \in 1..Len(Polygons) : Touches(k, j)})

\* C10: the inspection loops end for every stream and every cursor position,
\* that is, neither loop is ever in a state it cannot leave.
C10_LoopsTerminate == ~GeoStuck /\ ~CsvStuck

====
